---- MODULE Spec2Model ----
(***************************************************************************)
(* Model of the MIDI sequence generator (backend/generators/               *)
(* midi_generator.py) and of the configuration construction done by the    *)
(* HTTP layer (backend/app.py).                                            *)
(*                                                                         *)
(* Numbers.  The generator computes with binary floating point; the model  *)
(* computes with exact rationals.  All times of one run are held as        *)
(* integers in units of 1/(100*tempo) second, which makes every quantity   *)
(* of the fill loop an integer for every integer tempo > 0:                *)
(*   a quarter note, 60/tempo s, is 6000 units,                            *)
(*   0.01 s is tempo units,                                                *)
(*   a duration times a percentage is a multiple of 15 units.              *)
(* Beat lengths are held in sixteenths (beats * 4), probabilities and      *)
(* the articulation factor in percent, duration_seconds in hundredths.     *)
(***************************************************************************)
EXTENDS Integers, Sequences, FiniteSets, TLC

VARIABLES
    cfg,              \* self.config of the MidiSequenceGenerator
    pc,               \* position inside generate()
    scale_notes,      \* local scale_notes
    bar,              \* loop variable of "for bar in range(total_bars)"
    t,                \* local t (units of 1/(100*tempo) s)
    notes,            \* instrument.notes
    note_count,       \* local note_count
    pitch_histogram,  \* local pitch_histogram (index 1..12 for class 0..11)
    metadata,         \* the dict returned by generate()
    error,            \* the exception generate() ended with, or "none"
    body,             \* the map handed to the configuration layer
    cpc,              \* position inside the configuration layer
    config,           \* the SequenceConfig built from body
    cdict,            \* to_dict(config)
    back,             \* from_dict(to_dict(config))
    cerr,             \* the exception the configuration layer ended with
    twin,             \* a second generate() call, fed the same random draws
    persist           \* a calling path that persists generated sequences

gvars == <<cfg, pc, scale_notes, bar, t, notes, note_count, pitch_histogram,
           metadata, error>>
cvars == <<body, cpc, config, cdict, back, cerr>>
vars == <<cfg, pc, scale_notes, bar, t, notes, note_count, pitch_histogram,
          metadata, error, body, cpc, config, cdict, back, cerr, twin, persist>>

----------------------------------------------------------------------------
(* Bounds of the model *)

MaxBars == 2
MaxOctave == 8

\* Largest count of a batch request the model follows.
MaxCount == 3

----------------------------------------------------------------------------
(* Music theory constants *)

SCALE_INTERVALS ==
    ("major" :> <<0, 2, 4, 5, 7, 9, 11>>) @@
    ("minor" :> <<0, 2, 3, 5, 7, 8, 10>>) @@
    ("pentatonic_major" :> <<0, 2, 4, 7, 9>>) @@
    ("pentatonic_minor" :> <<0, 3, 5, 7, 10>>) @@
    ("blues" :> <<0, 3, 5, 6, 7, 10>>) @@
    ("dorian" :> <<0, 2, 3, 5, 7, 9, 10>>) @@
    ("mixolydian" :> <<0, 2, 4, 5, 7, 9, 10>>)

KEY_OFFSETS ==
    ("C" :> 0) @@ ("C#" :> 1) @@ ("Db" :> 1) @@
    ("D" :> 2) @@ ("D#" :> 3) @@ ("Eb" :> 3) @@
    ("E" :> 4) @@ ("F" :> 5) @@ ("F#" :> 6) @@
    ("Gb" :> 6) @@ ("G" :> 7) @@ ("G#" :> 8) @@
    ("Ab" :> 8) @@ ("A" :> 9) @@ ("A#" :> 10) @@
    ("Bb" :> 10) @@ ("B" :> 11)

\* Beat lengths in sixteenths (beats * 4).
NOTE_DURATIONS ==
    ("whole" :> 16) @@ ("half" :> 8) @@ ("quarter" :> 4) @@
    ("eighth" :> 2) @@ ("sixteenth" :> 1) @@
    ("dotted_quarter" :> 6) @@ ("dotted_eighth" :> 3)

\* Weights in percent.
DURATION_PROFILES ==
    ("low" :> (("quarter" :> 70) @@ ("half" :> 20) @@ ("eighth" :> 10))) @@
    ("medium" :> (("quarter" :> 40) @@ ("half" :> 15) @@ ("eighth" :> 25) @@
                  ("dotted_quarter" :> 10) @@ ("sixteenth" :> 10))) @@
    ("high" :> (("quarter" :> 20) @@ ("half" :> 10) @@ ("eighth" :> 20) @@
                ("sixteenth" :> 20) @@ ("dotted_quarter" :> 15) @@
                ("dotted_eighth" :> 10) @@ ("whole" :> 5)))

\* Beat lengths in thousandths of a beat; "mixed" is None in the code.
RHYTHM_PATTERNS ==
    ("straight" :> <<1000, 1000, 1000, 1000>>) @@
    ("dotted" :> <<1500, 500, 1500, 500>>) @@
    ("syncopated" :> <<500, 1000, 1500, 500, 500>>) @@
    ("triplet" :> <<667, 667, 667>>) @@
    ("waltz" :> <<1500, 750, 750>>) @@
    ("swing" :> <<750, 250, 750, 250>>) @@
    ("mixed" :> <<>>)

----------------------------------------------------------------------------
(* SequenceConfig *)

FieldNames ==
    {"key", "scale", "tempo", "time_signature_num", "time_signature_den",
     "num_bars", "octave_range", "rhythm_pattern", "note_duration_variety",
     "rest_probability", "velocity_variation", "instrument"}

\* The dict with no key.
EmptyMap == [k \in {} |-> 0]

\* A Python sequence value: its type ("tuple" or "list") and its elements.
PyTuple(elems) == [kind |-> "tuple", elems |-> elems]
PyList(elems) == [kind |-> "list", elems |-> elems]

\* The dataclass defaults; rest_probability 0.1 is 10 percent.
SequenceConfig ==
    [key |-> "C", scale |-> "major", tempo |-> 120,
     time_signature_num |-> 4, time_signature_den |-> 4, num_bars |-> 8,
     octave_range |-> PyTuple(<<4, 6>>), rhythm_pattern |-> "straight",
     note_duration_variety |-> "medium", rest_probability |-> 10,
     velocity_variation |-> TRUE, instrument |-> 0]

\* asdict(self), then octave_range replaced by list(self.octave_range).
to_dict(c) == [c EXCEPT !.octave_range = PyList(c.octave_range.elems)]

\* d.copy(); octave_range, when present, becomes a tuple; cls(**d) takes
\* the dataclass default for an absent field and raises TypeError for a
\* keyword that is no field.  No field is validated.
from_dict(d) ==
    LET d2 == [k \in DOMAIN d |->
                  IF k = "octave_range" THEN PyTuple(d[k].elems) ELSE d[k]]
    IN  IF DOMAIN d2 \subseteq FieldNames
        THEN [ok |-> TRUE, error |-> "none",
              value |-> [f \in FieldNames |->
                            IF f \in DOMAIN d2 THEN d2[f]
                            ELSE SequenceConfig[f]]]
        ELSE [ok |-> FALSE, error |-> "TypeError", value |-> SequenceConfig]

----------------------------------------------------------------------------
(* Units *)

\* Time units per second of a run at the given tempo.
UnitsPerSecond(tempo) == 100 * tempo

\* h hundredths of a second, in units.
Hundredths(h, tempo) == (h * UnitsPerSecond(tempo)) \div 100

Min(a, b) == IF a < b THEN a ELSE b
Max(a, b) == IF a > b THEN a ELSE b

----------------------------------------------------------------------------
(* MidiSequenceGenerator helpers *)

MidiNoteNoOctaveShift(octave, root, interval) == octave * 12 + root + interval

MidiNote(octave, root, interval) == (octave + 1) * 12 + root + interval

InPianoRangeExclusive(m) == 21 <= m /\ m < 108

InPianoRange(m) == 21 <= m /\ m <= 108

\* The inner loop of _get_scale_notes: the notes one octave appends, from
\* the i-th interval on.
RECURSIVE IntervalLoop(_, _, _, _)
IntervalLoop(root, intervals, octave, i) ==
    IF i > Len(intervals) THEN <<>>
    ELSE LET midi_note == MidiNote(octave, root, intervals[i])
         IN  (IF InPianoRange(midi_note) THEN <<midi_note>> ELSE <<>>)
             \o IntervalLoop(root, intervals, octave, i + 1)

\* The outer loop of _get_scale_notes: for octave in range(lo, hi + 1).
RECURSIVE OctaveLoop(_, _, _, _)
OctaveLoop(root, intervals, octave, hi) ==
    IF octave > hi THEN <<>>
    ELSE IntervalLoop(root, intervals, octave, 1)
         \o OctaveLoop(root, intervals, octave + 1, hi)

\* sorted(): the stable ascending arrangement of s.  The element at index i
\* goes to the position counting the elements that sort before it.
SortedPosition(s, i) ==
    Cardinality({j \in 1..Len(s) : s[j] < s[i] \/ (s[j] = s[i] /\ j < i)}) + 1

sorted(s) ==
    [k \in 1..Len(s) |-> s[CHOOSE i \in 1..Len(s) : SortedPosition(s, i) = k]]

get_scale_notes(c) ==
    LET root == KEY_OFFSETS[c.key]
        intervals == SCALE_INTERVALS[c.scale]
        lo == c.octave_range.elems[1]
        hi == c.octave_range.elems[2]
    IN  sorted(OctaveLoop(root, intervals, lo, hi))

\* The lists _get_rhythm_pattern can return.  generate() never calls it.
get_rhythm_pattern(c) ==
    IF c.rhythm_pattern = "mixed"
    THEN {RHYTHM_PATTERNS[k] :
             k \in {n \in DOMAIN RHYTHM_PATTERNS : RHYTHM_PATTERNS[n] # <<>>}}
    ELSE IF c.rhythm_pattern \in DOMAIN RHYTHM_PATTERNS
         THEN {RHYTHM_PATTERNS[c.rhythm_pattern]}
         ELSE {RHYTHM_PATTERNS["straight"]}

\* Durations drawn from the rhythm pattern instead of the duration profile.
pick_duration_from_pattern(c) ==
    UNION {{(p[i] * 4) \div 1000 : i \in 1..Len(p)} :
              p \in get_rhythm_pattern(c)}

\* The beat lengths (in sixteenths) random.choices can return: every name
\* of the profile has a positive weight.
pick_duration(c) ==
    LET profile == IF c.note_duration_variety \in DOMAIN DURATION_PROFILES
                   THEN DURATION_PROFILES[c.note_duration_variety]
                   ELSE DURATION_PROFILES["medium"]
    IN  {NOTE_DURATIONS[n] : n \in {m \in DOMAIN profile : profile[m] > 0}}

\* The values _velocity can return, randint(55, 110) sampled at its ends.
velocity(c) == IF c.velocity_variation THEN {55, 110} ELSE {80}

\* 60.0 / cfg.tempo seconds, in units.
quarter_duration(c) == (60 * UnitsPerSecond(c.tempo)) \div c.tempo

bar_duration(c) == c.time_signature_num * quarter_duration(c)

bar_start(c, b) == b * bar_duration(c)

bar_end(c, b) == bar_start(c, b) + bar_duration(c)

\* 0.01 s, the guard of the while loop.
Epsilon(c) == Hundredths(1, c.tempo)

\* 0.05 s, the minimum added to start.
MinNoteLength(c) == Hundredths(5, c.tempo)

IsRestInclusive(u, rest_probability) == u <= rest_probability

\* random.random() < cfg.rest_probability
IsRest(u, rest_probability) == u < rest_probability

DurSecUnclamped(c, dur_sixteenths, remaining) ==
    (dur_sixteenths * quarter_duration(c)) \div 4

\* min(beats * quarter_duration, remaining)
DurSec(c, dur_sixteenths, remaining) ==
    Min((dur_sixteenths * quarter_duration(c)) \div 4, remaining)

NoteStart(start) == Max(0, start)

NoteEnd(c, start, end) == Max(start + MinNoteLength(c), end)

HistogramSet(h, note_midi) == [h EXCEPT ![(note_midi % 12) + 1] = 1]

\* pitch_histogram[note_midi % 12] += 1
HistogramIncrement(h, note_midi) ==
    [h EXCEPT ![(note_midi % 12) + 1] = @ + 1]

Round2Truncate(num, den) == num \div den

\* round(num/den, 2) in hundredths: the nearest integer to 100*num/den,
\* an exact tie going to the even one.
Round2(num, den) ==
    LET q == (100 * num) \div den
        r == (100 * num) % den
    IN  IF 2 * r < den THEN q
        ELSE IF 2 * r > den THEN q + 1
        ELSE IF q % 2 = 0 THEN q ELSE q + 1

\* round(total_bars * beats_per_bar * (60.0 / cfg.tempo), 2), hundredths.
DurationSeconds(c) ==
    Round2(c.num_bars * c.time_signature_num * 60, c.tempo)

NoMetadata ==
    [id |-> "none", config |-> SequenceConfig,
     stats |-> [note_count |-> 0, duration_seconds |-> 0,
                pitch_histogram |-> <<>>, scale_notes_used |-> <<>>]]

----------------------------------------------------------------------------
(* Random draws *)

\* random.random(), in percent.
RandomDraws == {0, 50, 99}

\* random.uniform(-0.01, 0.01), in hundredths of a second.
JitterDraws == {-1, 1}

\* random.uniform(0.85, 0.98), in percent.
ArticulationDraws == {85, 98}

----------------------------------------------------------------------------
(* generate() *)

\* Lines 169-181: the scale-note universe and the loop variables.
Setup ==
    /\ pc = "start"
    /\ IF cfg.key \notin DOMAIN KEY_OFFSETS
          \/ cfg.scale \notin DOMAIN SCALE_INTERVALS
       THEN /\ pc' = "raised"
            /\ error' = "KeyError"
            /\ UNCHANGED <<scale_notes, note_count, pitch_histogram>>
       ELSE /\ pc' = "bar"
            /\ scale_notes' = get_scale_notes(cfg)
            /\ note_count' = 0
            /\ pitch_histogram' = [i \in 1..12 |-> 0]
            /\ error' = error
    /\ UNCHANGED <<cfg, bar, t, notes, metadata, cvars, twin, persist>>

\* Lines 183-186: the next bar begins.
EnterBar ==
    /\ pc = "bar"
    /\ bar < cfg.num_bars
    /\ t' = bar_start(cfg, bar)
    /\ pc' = "fill"
    /\ UNCHANGED <<cfg, scale_notes, bar, notes, note_count, pitch_histogram,
                   metadata, error, cvars, twin, persist>>

\* Lines 188-195: an iteration that draws a rest.
FillRest ==
    /\ pc = "fill"
    /\ t < bar_end(cfg, bar) - Epsilon(cfg)
    /\ \E u \in RandomDraws, dur \in pick_duration(cfg) :
          /\ IsRest(u, cfg.rest_probability)
          /\ t' = t + DurSec(cfg, dur, bar_end(cfg, bar) - t)
    /\ UNCHANGED <<cfg, pc, scale_notes, bar, notes, note_count,
                   pitch_histogram, metadata, error, cvars, twin, persist>>

\* Lines 188-215: an iteration that appends a note.
FillNote ==
    /\ pc = "fill"
    /\ t < bar_end(cfg, bar) - Epsilon(cfg)
    /\ scale_notes # <<>>
    /\ \E u \in RandomDraws, i \in 1..Len(scale_notes),
          dur_beats \in pick_duration(cfg), jitter \in JitterDraws,
          factor \in ArticulationDraws, vel \in velocity(cfg) :
          /\ ~IsRest(u, cfg.rest_probability)
          /\ LET note_midi == scale_notes[i]
                 dur_sec == DurSec(cfg, dur_beats, bar_end(cfg, bar) - t)
                 start == t + Hundredths(jitter, cfg.tempo)
                 end == start + (dur_sec * factor) \div 100
                 note == [velocity |-> vel, pitch |-> note_midi,
                          start |-> NoteStart(start),
                          end |-> NoteEnd(cfg, start, end)]
             IN  /\ notes' = Append(notes, note)
                 /\ pitch_histogram' =
                        HistogramIncrement(pitch_histogram, note_midi)
                 /\ note_count' = note_count + 1
                 /\ t' = t + dur_sec
    /\ UNCHANGED <<cfg, pc, scale_notes, bar, metadata, error, cvars, twin, persist>>

\* Line 198: random.choice of an empty list raises IndexError.
FillChoiceRaises ==
    /\ pc = "fill"
    /\ t < bar_end(cfg, bar) - Epsilon(cfg)
    /\ scale_notes = <<>>
    /\ \E u \in RandomDraws : ~IsRest(u, cfg.rest_probability)
    /\ pc' = "raised"
    /\ error' = "IndexError"
    /\ UNCHANGED <<cfg, scale_notes, bar, t, notes, note_count,
                   pitch_histogram, metadata, cvars, twin, persist>>

\* Line 188: the while condition is false, the bar is left.
LeaveBar ==
    /\ pc = "fill"
    /\ ~(t < bar_end(cfg, bar) - Epsilon(cfg))
    /\ bar' = bar + 1
    /\ pc' = "bar"
    /\ UNCHANGED <<cfg, scale_notes, t, notes, note_count, pitch_histogram,
                   metadata, error, cvars, twin, persist>>

\* Lines 217-230: the metadata record is built and returned.
Return ==
    /\ pc = "bar"
    /\ ~(bar < cfg.num_bars)
    /\ metadata' =
          [id |-> "uuid4", config |-> to_dict(cfg),
           stats |-> [note_count |-> note_count,
                      duration_seconds |-> DurationSeconds(cfg),
                      pitch_histogram |-> pitch_histogram,
                      scale_notes_used |-> scale_notes]]
    /\ pc' = "done"
    /\ UNCHANGED <<cfg, scale_notes, bar, t, notes, note_count,
                   pitch_histogram, error, cvars, twin, persist>>

----------------------------------------------------------------------------
(* The configurations generate() is run on *)

\* key=C, scale=major, octave_range=(8,8): the one-note universe [108].
TimingConfigs ==
    {[SequenceConfig EXCEPT
         !.octave_range = PyTuple(<<8, 8>>), !.note_duration_variety = "low",
         !.velocity_variation = FALSE, !.time_signature_num = 1,
         !.tempo = tempo, !.num_bars = n, !.rest_probability = rp] :
     tempo \in {70, 120, 500, 6000}, n \in 1..MaxBars, rp \in {0, 50, 100}}

\* Meters other than 1, at tempos whose bar is close to the 0.01 s guard.
MeterConfigs ==
    {[SequenceConfig EXCEPT
         !.octave_range = PyTuple(<<8, 8>>), !.note_duration_variety = "low",
         !.velocity_variation = FALSE, !.num_bars = 1,
         !.time_signature_num = num, !.tempo = tempo,
         !.rest_probability = rp] :
     num \in {2, 3}, tempo \in {6000, 12000}, rp \in {0, 50}}

\* Names inside and outside the constant tables.
NameConfigs ==
    {[SequenceConfig EXCEPT
         !.octave_range = PyTuple(<<8, 8>>), !.num_bars = 1,
         !.time_signature_num = 1, !.velocity_variation = FALSE,
         !.key = k, !.scale = sc, !.rhythm_pattern = rh,
         !.note_duration_variety = dv, !.rest_probability = rp] :
     k \in {"C", "H"}, sc \in {"major", "lydian"},
     rh \in {"straight", "mixed", "bossa"},
     dv \in {"low", "medium", "extreme"}, rp \in {0, 50}}

\* key=C, scale=major, octave_range=(0,0): the two-note universe [21, 23],
\* with and without velocity variation.
PitchConfigs ==
    {[SequenceConfig EXCEPT
         !.octave_range = PyTuple(<<0, 0>>), !.note_duration_variety = "low",
         !.time_signature_num = 1, !.num_bars = 1,
         !.velocity_variation = vv, !.rest_probability = rp] :
     vv \in BOOLEAN, rp \in {0, 50}}

\* key=C#, octave_range=(8,8): every pitch is above 108.
EmptyConfigs ==
    {[SequenceConfig EXCEPT
         !.key = "C#", !.octave_range = PyTuple(<<8, 8>>),
         !.note_duration_variety = "low", !.time_signature_num = 1,
         !.num_bars = n, !.rest_probability = rp] :
     n \in 1..MaxBars, rp \in {0, 50, 100}}

\* Every key, scale and octave range, on a one-bar run of rests.
ScaleConfigs ==
    {[SequenceConfig EXCEPT
         !.key = k, !.scale = sc, !.octave_range = PyTuple(<<lo, hi>>),
         !.note_duration_variety = "low", !.time_signature_num = 1,
         !.num_bars = 1, !.rest_probability = 100] :
     k \in DOMAIN KEY_OFFSETS, sc \in DOMAIN SCALE_INTERVALS,
     lo \in 0..MaxOctave, hi \in 0..MaxOctave}

Configs ==
    TimingConfigs \cup MeterConfigs \cup NameConfigs \cup PitchConfigs
    \cup EmptyConfigs
    \cup {c \in ScaleConfigs :
             c.octave_range.elems[1] <= c.octave_range.elems[2]}

\* No second call is running.
TwinIdle ==
    twin = [cfg |-> SequenceConfig, pc |-> "idle", scale_notes |-> <<>>,
            bar |-> 0, t |-> 0, notes |-> <<>>, note_count |-> 0,
            pitch_histogram |-> <<>>, metadata |-> NoMetadata,
            error |-> "none"]

PersistIdle ==
    persist = [path |-> "none", ppc |-> "idle", count |-> 0, i |-> 0,
               generated |-> 0, unset_read |-> FALSE, files |-> {},
               written |-> 0, attempts |-> 0, inserted |-> 0,
               errors |-> <<>>, results |-> <<>>, status |-> 0]

ConfigIdle ==
    /\ body = EmptyMap
    /\ cpc = "idle"
    /\ config = SequenceConfig
    /\ cdict = SequenceConfig
    /\ back = [ok |-> FALSE, error |-> "none", value |-> SequenceConfig]
    /\ cerr = "none"

Init ==
    /\ cfg \in Configs
    /\ pc = "start"
    /\ scale_notes = <<>>
    /\ bar = 0
    /\ t = 0
    /\ notes = <<>>
    /\ note_count = 0
    /\ pitch_histogram = <<>>
    /\ metadata = NoMetadata
    /\ error = "none"
    /\ ConfigIdle
    /\ TwinIdle
    /\ PersistIdle

Next ==
    \/ Setup
    \/ EnterBar
    \/ FillRest
    \/ FillNote
    \/ FillChoiceRaises
    \/ LeaveBar
    \/ Return

Spec == Init /\ [][Next]_vars

\* The configurations of the runs checked for termination.
FairConfigs ==
    {c \in TimingConfigs : c.tempo \in {120, 6000}}
    \cup MeterConfigs \cup PitchConfigs \cup EmptyConfigs

InitFair ==
    /\ cfg \in FairConfigs
    /\ pc = "start"
    /\ scale_notes = <<>>
    /\ bar = 0
    /\ t = 0
    /\ notes = <<>>
    /\ note_count = 0
    /\ pitch_histogram = <<>>
    /\ metadata = NoMetadata
    /\ error = "none"
    /\ ConfigIdle
    /\ TwinIdle
    /\ PersistIdle

\* generate() is sequential code: a call that can take a step takes it.
SpecFair == InitFair /\ [][Next]_vars /\ WF_vars(Next)

----------------------------------------------------------------------------
(* Two generate() calls fed the same random draws *)

\* The state of the call held in the variables.
Current ==
    [cfg |-> cfg, pc |-> pc, scale_notes |-> scale_notes, bar |-> bar,
     t |-> t, notes |-> notes, note_count |-> note_count,
     pitch_histogram |-> pitch_histogram, metadata |-> metadata,
     error |-> error]

\* The random values one step of a call in state s may consume.
Draws(s) ==
    [u : RandomDraws, i : 1..Max(1, Len(s.scale_notes)),
     dur : pick_duration(s.cfg), jitter : JitterDraws,
     factor : ArticulationDraws, vel : velocity(s.cfg)]

\* Lines 169-181 on a call state.
SetupOf(s) ==
    IF s.cfg.key \notin DOMAIN KEY_OFFSETS
       \/ s.cfg.scale \notin DOMAIN SCALE_INTERVALS
    THEN [s EXCEPT !.pc = "raised", !.error = "KeyError"]
    ELSE [s EXCEPT !.pc = "bar", !.scale_notes = get_scale_notes(s.cfg),
                   !.note_count = 0,
                   !.pitch_histogram = [i \in 1..12 |-> 0]]

\* Lines 183-186 and 217-230 on a call state.
BarOf(s) ==
    IF s.bar < s.cfg.num_bars
    THEN [s EXCEPT !.t = bar_start(s.cfg, s.bar), !.pc = "fill"]
    ELSE [s EXCEPT !.pc = "done",
                   !.metadata =
                       [id |-> "uuid4", config |-> to_dict(s.cfg),
                        stats |-> [note_count |-> s.note_count,
                                   duration_seconds |-> DurationSeconds(s.cfg),
                                   pitch_histogram |-> s.pitch_histogram,
                                   scale_notes_used |-> s.scale_notes]]]

\* Lines 188-215 on a call state: one pass through the while loop with the
\* draws d, or the exit of the loop.
FillOf(s, d) ==
    LET remaining == bar_end(s.cfg, s.bar) - s.t
        dur_sec == DurSec(s.cfg, d.dur, remaining)
    IN  IF ~(s.t < bar_end(s.cfg, s.bar) - Epsilon(s.cfg))
        THEN [s EXCEPT !.bar = s.bar + 1, !.pc = "bar"]
        ELSE IF IsRest(d.u, s.cfg.rest_probability)
        THEN [s EXCEPT !.t = s.t + dur_sec]
        ELSE IF s.scale_notes = <<>>
        THEN [s EXCEPT !.pc = "raised", !.error = "IndexError"]
        ELSE LET note_midi == s.scale_notes[d.i]
                 start == s.t + Hundredths(d.jitter, s.cfg.tempo)
                 end == start + (dur_sec * d.factor) \div 100
                 note == [velocity |-> d.vel, pitch |-> note_midi,
                          start |-> NoteStart(start),
                          end |-> NoteEnd(s.cfg, start, end)]
             IN  [s EXCEPT !.notes = Append(s.notes, note),
                           !.pitch_histogram =
                               HistogramIncrement(s.pitch_histogram, note_midi),
                           !.note_count = s.note_count + 1,
                           !.t = s.t + dur_sec]

\* One step of generate() on a call state, consuming the draws d.  A call
\* whose loop cannot yield the draws (a duration or a velocity its
\* configuration never produces) stays where it is.
StepOf(s, d) ==
    IF s.pc = "start" THEN SetupOf(s)
    ELSE IF s.pc = "bar" THEN BarOf(s)
    ELSE IF s.pc = "fill"
    THEN IF /\ s.t < bar_end(s.cfg, s.bar) - Epsilon(s.cfg)
            /\ (d.dur \notin pick_duration(s.cfg)
                \/ d.vel \notin velocity(s.cfg))
         THEN s
         ELSE FillOf(s, d)
    ELSE s

\* The draws a step from state s consumes: those of one pass through the
\* while loop; any other step consumes none.
DrawsAt(s) ==
    IF s.pc = "fill" /\ s.t < bar_end(s.cfg, s.bar) - Epsilon(s.cfg)
    THEN Draws(s)
    ELSE {CHOOSE d \in Draws(s) : TRUE}

\* Pattern names of the table, the "mixed" sentinel and an unknown name.
TwinPatterns == {"straight", "swing", "mixed", "bossa"}

TwinConfigs ==
    {c \in TimingConfigs : c.tempo = 120 /\ c.num_bars <= 2}
    \cup PitchConfigs \cup EmptyConfigs
    \cup {c \in NameConfigs :
             /\ c.rhythm_pattern = "mixed"
             /\ c.note_duration_variety = "low"
             /\ c.scale = "major"}

\* Two calls on configurations that differ at most in rhythm_pattern.
InitTwin ==
    /\ cfg \in TwinConfigs
    /\ pc = "start"
    /\ scale_notes = <<>>
    /\ bar = 0
    /\ t = 0
    /\ notes = <<>>
    /\ note_count = 0
    /\ pitch_histogram = <<>>
    /\ metadata = NoMetadata
    /\ error = "none"
    /\ ConfigIdle
    /\ PersistIdle
    /\ \E rh \in TwinPatterns :
          twin = [Current EXCEPT !.cfg = [cfg EXCEPT !.rhythm_pattern = rh]]

\* Both calls take one step of generate() with the same draws.
TwinStep ==
    \E d \in DrawsAt(Current) :
        LET r == StepOf(Current, d)
        IN  /\ r # Current
            /\ cfg' = r.cfg
            /\ pc' = r.pc
            /\ scale_notes' = r.scale_notes
            /\ bar' = r.bar
            /\ t' = r.t
            /\ notes' = r.notes
            /\ note_count' = r.note_count
            /\ pitch_histogram' = r.pitch_histogram
            /\ metadata' = r.metadata
            /\ error' = r.error
            /\ twin' = StepOf(twin, d)
            /\ UNCHANGED <<cvars, persist>>

NextTwin == TwinStep

SpecTwin == InitTwin /\ [][NextTwin]_vars

----------------------------------------------------------------------------
(* The configuration layer: SequenceConfig.random, the overrides of         *)
(* generate_sequence, from_dict and to_dict                                 *)

\* The maps with key k bound to one of vals, and the map without it.
Optional(k, vals) == {EmptyMap} \cup {k :> v : v \in vals}

\* Request bodies and maps: some recognised fields, inside and outside
\* their ranges, the "random" switch of the endpoint, and a key that is no
\* field.  rest_probability 150 is 1.5.
Bodies ==
    {a @@ b @@ c @@ d @@ e @@ f :
        a \in Optional("tempo", {0, 90}),
        b \in Optional("num_bars", {0, 4}),
        c \in Optional("rest_probability", {150}),
        d \in Optional("octave_range", {PyList(<<3, 5>>), PyList(<<6, 2>>)}),
        e \in Optional("random", {TRUE, FALSE}),
        f \in Optional("comment", {"x"})}

\* body.get(k, default)
Get(d, k, default) == IF k \in DOMAIN d THEN d[k] ELSE default

\* Results of SequenceConfig.random(), sampled from its pools.
random_configs ==
    {[SequenceConfig EXCEPT
         !.key = k, !.tempo = 60, !.time_signature_num = 3, !.num_bars = 4,
         !.octave_range = PyTuple(<<lo, hi>>), !.rhythm_pattern = "mixed",
         !.note_duration_variety = "high", !.rest_probability = rp,
         !.instrument = 73] :
     k \in {"C", "Bb"}, lo \in {3, 4}, hi \in {5, 6}, rp \in {5, 25}}

\* The override loop of generate_sequence: setattr for every key of the
\* body that is an attribute of the config, "random" excepted.
Override(c, d) ==
    [f \in FieldNames |->
        IF f \in DOMAIN d /\ f # "random" THEN d[f] ELSE c[f]]

\* app.py lines 104-109: a random config with the body's overrides.
generate_sequence_random ==
    /\ cpc = "request"
    /\ Get(body, "random", TRUE)
    /\ \E c \in random_configs : config' = Override(c, body)
    /\ cpc' = "config"
    /\ UNCHANGED <<body, cdict, back, cerr, gvars, twin, persist>>

\* app.py lines 110-111: the body itself is handed to from_dict.
generate_sequence_from_dict ==
    /\ cpc = "request"
    /\ ~Get(body, "random", TRUE)
    /\ LET r == from_dict(body)
       IN  IF r.ok
           THEN /\ config' = r.value
                /\ cpc' = "loaded"
                /\ cerr' = cerr
           ELSE /\ cpc' = "raised"
                /\ cerr' = r.error
                /\ config' = config
    /\ UNCHANGED <<body, cdict, back, gvars, twin, persist>>

\* SequenceConfig.from_dict called on a map by any other client.
FromDictCall ==
    /\ cpc = "request"
    /\ LET r == from_dict(body)
       IN  IF r.ok
           THEN /\ config' = r.value
                /\ cpc' = "loaded"
                /\ cerr' = cerr
           ELSE /\ cpc' = "raised"
                /\ cerr' = r.error
                /\ config' = config
    /\ UNCHANGED <<body, cdict, back, gvars, twin, persist>>

\* to_dict of the config that was built.
ToDictCall ==
    /\ cpc \in {"config", "loaded"}
    /\ cdict' = to_dict(config)
    /\ cpc' = "dict"
    /\ UNCHANGED <<body, config, back, cerr, gvars, twin, persist>>

\* from_dict of that map.
FromDictBack ==
    /\ cpc = "dict"
    /\ back' = from_dict(cdict)
    /\ cpc' = "back"
    /\ UNCHANGED <<body, config, cdict, cerr, gvars, twin, persist>>

GenerateIdle ==
    /\ cfg = SequenceConfig
    /\ pc = "idle"
    /\ scale_notes = <<>>
    /\ bar = 0
    /\ t = 0
    /\ notes = <<>>
    /\ note_count = 0
    /\ pitch_histogram = <<>>
    /\ metadata = NoMetadata
    /\ error = "none"

InitConfig ==
    /\ body \in Bodies
    /\ cpc = "request"
    /\ config = SequenceConfig
    /\ cdict = SequenceConfig
    /\ back = [ok |-> FALSE, error |-> "none", value |-> SequenceConfig]
    /\ cerr = "none"
    /\ GenerateIdle
    /\ TwinIdle
    /\ PersistIdle

NextConfig ==
    \/ generate_sequence_random
    \/ generate_sequence_from_dict
    \/ FromDictCall
    \/ ToDictCall
    \/ FromDictBack

SpecConfig == InitConfig /\ [][NextConfig]_vars

----------------------------------------------------------------------------
(* The calling paths that persist a generated sequence: generate_sequence  *)
(* and batch_generate of app.py, generate_batch of midi_generator.py.      *)
(* A Python dict is a function on its keys; the config and stats values,   *)
(* which these paths hand on unread, are held as the names of their keys.  *)

\* Values of uuid.uuid4().
Ids == {"a", "b", "c", "d"}

Paths == {"generate_sequence", "batch_generate", "generate_batch"}

\* Lines 219-228: the dict generate() returns.
GenerateReturn(id) == [id |-> id, config |-> "config", stats |-> "stats"]

\* How the generate() call of a path can end.  The batch paths run it on
\* SequenceConfig.random() or SequenceConfig(), whose names are known and
\* whose universe is not empty; generate_sequence runs it on whatever the
\* body holds.
GenerateOutcomes(path) ==
    IF path = "generate_sequence"
    THEN {"returned", "KeyError", "IndexError"}
    ELSE {"returned"}

\* d[k] = v on a dict.
DictSet(d, k, v) == [x \in DOMAIN d \cup {k} |-> IF x = k THEN v ELSE d[x]]

\* os.path.join(directory, filename).
PathJoin(directory, filename) == <<directory, filename>>

\* app.py lines 113-118 and 122 (144-147 in batch_generate): the generate()
\* call, the file write and the insert on path state p.  exc is the
\* exception the lines end with, "none" when they run through.
WriteAndInsert(p, id, out, db_ok) ==
    IF out # "returned"
    THEN [p |-> p, exc |-> out, stage |-> "generate"]
    ELSE LET meta == GenerateReturn(id)
             q == [p EXCEPT !.generated = @ + 1]
         IN  IF "filename" \notin DOMAIN meta
             THEN [p |-> [q EXCEPT !.unset_read = TRUE],
                   exc |-> "KeyError", stage |-> "filename"]
             ELSE LET filepath == PathJoin("SEQUENCES_DIR", meta["filename"])
                      stored == DictSet(meta, "file_path", filepath)
                      w == [q EXCEPT !.files = @ \cup {filepath},
                                     !.written = @ + 1,
                                     !.attempts = @ + 1]
                  IN  IF db_ok
                      THEN [p |-> [w EXCEPT !.inserted = @ + 1,
                                            !.results = Append(@, stored)],
                            exc |-> "none", stage |-> "insert"]
                      ELSE [p |-> w, exc |-> "DatabaseError",
                            stage |-> "insert"]

\* app.py lines 113-126: an exception of the insert is answered with 500 by
\* the handler, any earlier one by the framework.
generate_sequence_persist ==
    /\ persist.path = "generate_sequence"
    /\ persist.ppc = "request"
    /\ \E id \in Ids, out \in GenerateOutcomes(persist.path),
          db_ok \in BOOLEAN :
          LET r == WriteAndInsert(persist, id, out, db_ok)
          IN  persist' =
                 IF r.exc = "none"
                 THEN [r.p EXCEPT !.ppc = "responded", !.status = 201]
                 ELSE [r.p EXCEPT
                          !.ppc = IF r.stage = "insert"
                                  THEN "responded" ELSE "raised",
                          !.status = 500,
                          !.errors = Append(@, r.exc)]
    /\ UNCHANGED <<gvars, cvars, twin>>

\* app.py lines 139-150: one pass of the loop of batch_generate; every
\* exception is appended to errors.
batch_generate_iteration ==
    /\ persist.path = "batch_generate"
    /\ persist.ppc = "loop"
    /\ persist.i < persist.count
    /\ \E id \in Ids, out \in GenerateOutcomes(persist.path),
          db_ok \in BOOLEAN :
          LET r == WriteAndInsert(persist, id, out, db_ok)
          IN  persist' =
                 IF r.exc = "none"
                 THEN [r.p EXCEPT !.i = @ + 1]
                 ELSE [r.p EXCEPT !.i = @ + 1,
                                  !.errors = Append(@, r.exc)]
    /\ UNCHANGED <<gvars, cvars, twin>>

\* app.py lines 152-153.
batch_generate_respond ==
    /\ persist.path = "batch_generate"
    /\ persist.ppc = "loop"
    /\ persist.i = persist.count
    /\ persist' = [persist EXCEPT !.ppc = "responded", !.status = 201]
    /\ UNCHANGED <<gvars, cvars, twin>>

\* midi_generator.py lines 242-253: one pass of the loop of generate_batch.
\* The filename is built from the id, the file is written, then file_path
\* and filename are stored in the dict.
generate_batch_iteration ==
    /\ persist.path = "generate_batch"
    /\ persist.ppc = "loop"
    /\ persist.i < persist.count
    /\ \E id \in Ids :
          LET meta == GenerateReturn(id)
              filename == <<meta["id"], ".mid">>
              filepath == PathJoin("output_dir", filename)
              stored == DictSet(DictSet(meta, "file_path", filepath),
                                "filename", filename)
          IN  persist' = [persist EXCEPT
                             !.generated = @ + 1,
                             !.files = @ \cup {filepath},
                             !.written = @ + 1,
                             !.results = Append(@, stored),
                             !.i = @ + 1]
    /\ UNCHANGED <<gvars, cvars, twin>>

\* midi_generator.py lines 257-264: the manifest is saved, the list returned.
generate_batch_return ==
    /\ persist.path = "generate_batch"
    /\ persist.ppc = "loop"
    /\ persist.i = persist.count
    /\ persist' = [persist EXCEPT
                      !.files = @ \cup {PathJoin("output_dir", <<"manifest", ".json">>)},
                      !.ppc = "returned"]
    /\ UNCHANGED <<gvars, cvars, twin>>

\* A request to one of the paths; count is min(int(body count), 100) of
\* batch_generate, the count argument of generate_batch.
InitPersist ==
    /\ GenerateIdle
    /\ ConfigIdle
    /\ TwinIdle
    /\ \E path \in Paths, n \in 0..MaxCount :
          /\ path = "generate_sequence" => n = 1
          /\ persist = [path |-> path,
                        ppc |-> IF path = "generate_sequence"
                                THEN "request" ELSE "loop",
                        count |-> n, i |-> 0, generated |-> 0,
                        unset_read |-> FALSE, files |-> {}, written |-> 0,
                        attempts |-> 0, inserted |-> 0, errors |-> <<>>,
                        results |-> <<>>, status |-> 0]

NextPersist ==
    \/ generate_sequence_persist
    \/ batch_generate_iteration
    \/ batch_generate_respond
    \/ generate_batch_iteration
    \/ generate_batch_return

SpecPersist == InitPersist /\ [][NextPersist]_vars

----------------------------------------------------------------------------
(* Properties of generate() *)

RECURSIVE SumSeq(_)
SumSeq(s) == IF s = <<>> THEN 0 ELSE s[1] + SumSeq(Tail(s))

\* The invariants the data model states for a Configuration.
ValidConfig(c) ==
    /\ c.octave_range.elems[1] <= c.octave_range.elems[2]
    /\ 0 <= c.rest_probability /\ c.rest_probability <= 100
    /\ c.tempo > 0
    /\ c.num_bars >= 1

KnownNames(c) ==
    c.key \in DOMAIN KEY_OFFSETS /\ c.scale \in DOMAIN SCALE_INTERVALS

\* The scale-note universe has been computed and is empty.
UniverseEmpty == KnownNames(cfg) /\ pc # "start" /\ scale_notes = <<>>

\* C1: for every valid Configuration and all draws, every appended note has
\* 0 <= pitch <= 127, stored start >= 0, stored end > stored start and
\* stored end - stored start >= 0.05 s, also when the jittered start is
\* negative and stored as 0.
C1_NoteBounds ==
    ValidConfig(cfg) =>
        \A i \in 1..Len(notes) :
            /\ 0 <= notes[i].pitch /\ notes[i].pitch <= 127
            /\ notes[i].start >= 0
            /\ notes[i].end > notes[i].start
            /\ notes[i].end - notes[i].start >= Hundredths(5, cfg.tempo)

\* C2: whenever the scale-note universe is empty, generate fails with
\* OutOfRange, whatever the rest probability and the draws; it never returns
\* a result with zero notes and an empty scale_notes_used.
C2_EmptyUniverseRaisesOutOfRange ==
    (UniverseEmpty /\ pc \in {"done", "raised"}) =>
        (pc = "raised" /\ error = "OutOfRange")

\* C5 as claimed: the duration_seconds statistic equals
\* num_bars * time_signature_num * (60 / tempo) exactly for every tempo > 0.
C5_DurationExact ==
    (pc = "done" /\ ValidConfig(cfg)) =>
        metadata.stats.duration_seconds * cfg.tempo
            = 6000 * cfg.num_bars * cfg.time_signature_num

\* C5 as amended: duration_seconds is num_bars * time_signature_num *
\* (60 / tempo) rounded to two decimals: it is a whole number of hundredths
\* within 0.005 s of the exact value (so equal to it when the exact value is
\* a multiple of 0.01), whatever notes and rests were drawn.
C5_DurationRounded ==
    (pc = "done" /\ ValidConfig(cfg)) =>
        LET exact == 6000 * cfg.num_bars * cfg.time_signature_num
            got == metadata.stats.duration_seconds * cfg.tempo
        IN  /\ 2 * (got - exact) <= cfg.tempo
            /\ 2 * (exact - got) <= cfg.tempo

\* A run returned whose exact duration is no multiple of 0.01 s, after both
\* a note and a rest were drawn.
C5_Witness ==
    /\ pc = "done"
    /\ (6000 * cfg.num_bars * cfg.time_signature_num) % cfg.tempo # 0
    /\ cfg.num_bars = 2
    /\ metadata.stats.note_count = 1

\* C6 as claimed: with rest_probability 0.0, a valid scale and num_bars >= 1
\* generate returns note_count > 0, for every tempo > 0 and every meter.
C6_NotesWithoutRests ==
    (pc = "done" /\ ValidConfig(cfg) /\ cfg.rest_probability = 0) =>
        metadata.stats.note_count > 0

\* C6 as amended: with rest_probability 0.0 and num_bars >= 1, a run that
\* returns has note_count > 0 provided one bar is longer than the 0.01 s
\* guard of the fill loop (time_signature_num * 60 / tempo > 0.01).
C6_NotesWithoutRestsLongBar ==
    (/\ pc = "done"
     /\ ValidConfig(cfg)
     /\ cfg.rest_probability = 0
     /\ 6000 * cfg.time_signature_num > cfg.tempo) =>
        metadata.stats.note_count > 0

\* A run without rests returned notes at a tempo outside 60..180.
C6_Witness ==
    /\ pc = "done"
    /\ cfg.rest_probability = 0
    /\ cfg.tempo > 180
    /\ metadata.stats.note_count >= cfg.num_bars

HistogramConsistent ==
    /\ pc \in {"bar", "fill", "done"} =>
          /\ SumSeq(pitch_histogram) = note_count
          /\ note_count = Len(notes)
    /\ pc = "done" =>
          /\ SumSeq(metadata.stats.pitch_histogram)
                = metadata.stats.note_count
          /\ metadata.stats.note_count = Len(notes)

\* C7: after every iteration of the fill loop and in the returned stats the
\* 12 pitch_histogram entries sum to note_count, which is the number of
\* notes appended; a rest iteration changes none of the three.
C7_HistogramMatchesNoteCount ==
    /\ []HistogramConsistent
    /\ [][FillRest => UNCHANGED <<notes, note_count, pitch_histogram>>]_vars

\* At tempo 120 a bar of one beat was filled by one eighth note and a rest.
C7_Witness ==
    /\ pc = "fill"
    /\ cfg.tempo = 120
    /\ bar = 0
    /\ t = bar_end(cfg, 0)
    /\ note_count = 1
    /\ notes[1].end < 4000
    /\ SumSeq(pitch_histogram) = 1

\* C8: a name outside the constant tables (key, scale, rhythm_pattern,
\* note_duration_variety) never makes generate raise; the only error
\* generate raises is OutOfRange, for an empty scale-note universe.
C8_OnlyOutOfRangeRaised ==
    pc = "raised" => (error = "OutOfRange" /\ UniverseEmpty)

IsCMajorOctave4 ==
    /\ cfg.key = "C"
    /\ cfg.scale = "major"
    /\ cfg.octave_range.elems = <<4, 4>>

\* C9 as claimed: for key=C, scale=major, octave_range=(4,4) the universe,
\* also as reported in scale_notes_used, is [60,62,64,65,67,69,71,72].
C9_UniverseWithBoundaryNote ==
    (IsCMajorOctave4 /\ pc = "done") =>
        /\ scale_notes = <<60, 62, 64, 65, 67, 69, 71, 72>>
        /\ metadata.stats.scale_notes_used
              = <<60, 62, 64, 65, 67, 69, 71, 72>>

\* C9 as amended: for key=C, scale=major, octave_range=(4,4) the universe,
\* also as reported in scale_notes_used, is [60,62,64,65,67,69,71]: the
\* seven scale pitches of the octave, without the note 72.
C9_UniverseCMajor ==
    (IsCMajorOctave4 /\ pc = "done") =>
        /\ scale_notes = <<60, 62, 64, 65, 67, 69, 71>>
        /\ metadata.stats.scale_notes_used = <<60, 62, 64, 65, 67, 69, 71>>

\* generate returned for key=C, scale=major, octave_range=(4,4).
C9_Witness ==
    /\ IsCMajorOctave4
    /\ pc = "done"
    /\ Len(metadata.stats.scale_notes_used) = 7

\* The pitches the specification of _get_scale_notes names for a config.
ExpectedPitches(c) ==
    LET intervals == SCALE_INTERVALS[c.scale]
        all == {(octave + 1) * 12 + KEY_OFFSETS[c.key] + intervals[i] :
                   octave \in c.octave_range.elems[1]..c.octave_range.elems[2],
                   i \in 1..Len(intervals)}
    IN  {m \in all : m >= 21 /\ m <= 108}

\* C10: for every key, scale and octave_range (low, high) with
\* 0 <= low <= high <= MaxOctave, the list _get_scale_notes returns is
\* strictly ascending, holds only pitches in [21,108] and holds exactly the
\* values (octave+1)*12 + keyOffset + interval of that range; for the ranges
\* SequenceConfig.random samples (low in {3,4}, high in {5,6}) it is not
\* empty.
C10_ScaleNotes ==
    (/\ pc # "start"
     /\ KnownNames(cfg)
     /\ 0 <= cfg.octave_range.elems[1]
     /\ cfg.octave_range.elems[1] <= cfg.octave_range.elems[2]) =>
        /\ \A i \in 1..(Len(scale_notes) - 1) :
              scale_notes[i] < scale_notes[i + 1]
        /\ \A i \in 1..Len(scale_notes) :
              scale_notes[i] >= 21 /\ scale_notes[i] <= 108
        /\ {scale_notes[i] : i \in 1..Len(scale_notes)} = ExpectedPitches(cfg)
        /\ Len(scale_notes) = Cardinality(ExpectedPitches(cfg))
        /\ (/\ cfg.octave_range.elems[1] \in {3, 4}
            /\ cfg.octave_range.elems[2] \in {5, 6}) => scale_notes # <<>>

\* The universe of key B over octaves 0..8 was computed: the filter dropped
\* pitches at both ends and several octaves were merged.
C10_Witness ==
    /\ pc = "bar"
    /\ cfg.key = "B"
    /\ cfg.scale = "blues"
    /\ cfg.octave_range.elems = <<0, 8>>
    /\ Len(scale_notes) > 40
    /\ Len(scale_notes) < 54

\* t stays inside the bar being filled.
TimeInsideBar ==
    pc = "fill" => (bar_start(cfg, bar) <= t /\ t <= bar_end(cfg, bar))

\* A step that stays in the fill loop is one iteration: it was taken under
\* the loop guard and moved t forward by min(sampled duration, remaining).
IterationAdvances ==
    (pc = "fill" /\ pc' = "fill") =>
        /\ t < bar_end(cfg, bar) - Hundredths(1, cfg.tempo)
        /\ t' > t
        /\ t' <= bar_end(cfg, bar)
        /\ \E d \in pick_duration(cfg) :
              t' - t = Min((d * quarter_duration(cfg)) \div 4,
                           bar_end(cfg, bar) - t)
        /\ bar' = bar

\* Once t >= bar_end - 0.01 the only step of the loop is to leave the bar.
GuardLeavesBar ==
    (pc = "fill" /\ t >= bar_end(cfg, bar) - Hundredths(1, cfg.tempo)) =>
        (pc' = "bar" /\ bar' = bar + 1 /\ t' = t)

\* C11: for every valid Configuration and all draws generate terminates:
\* every iteration of the fill loop strictly increases t by
\* min(sampled duration, remaining bar time) > 0, t never exceeds bar_end,
\* the loop leaves the bar once t >= bar_end - 0.01, and the call ends
\* (it returns, or raises) after finitely many steps.
C11_FillLoopTerminates ==
    /\ []TimeInsideBar
    /\ [][IterationAdvances]_vars
    /\ [][GuardLeavesBar]_vars
    /\ <>(pc \in {"done", "raised"})

\* At tempo 120 two bars of one beat were filled and left with three eighth
\* notes, so the fourth eighth was a rest.
C11_Witness ==
    /\ pc = "bar"
    /\ bar = 2
    /\ cfg.num_bars = 2
    /\ cfg.tempo = 120
    /\ t = bar_end(cfg, 1)
    /\ Len(notes) = 3
    /\ \A i \in 1..3 : notes[i].end - notes[i].start < 3100


----------------------------------------------------------------------------
(* Properties of the persisting paths *)

HttpPaths == {"generate_sequence", "batch_generate"}

\* C13: no path reads the filename of the metadata before it has been set,
\* and every generate() call that returned is followed by the file write
\* and, on the HTTP paths, by the insert attempt.
C13_FilenameSetBeforeRead ==
    /\ ~persist.unset_read
    /\ persist.written = persist.generated
    /\ persist.path \in HttpPaths => persist.attempts = persist.generated

----------------------------------------------------------------------------
(* Properties of the configuration layer *)

\* No recognised field of the map violates its invariant.
ValidFields(d) ==
    /\ "octave_range" \in DOMAIN d =>
          d["octave_range"].elems[1] <= d["octave_range"].elems[2]
    /\ "rest_probability" \in DOMAIN d =>
          (0 <= d["rest_probability"] /\ d["rest_probability"] <= 100)
    /\ "tempo" \in DOMAIN d => d["tempo"] > 0
    /\ "num_bars" \in DOMAIN d => d["num_bars"] >= 1

\* C3: from_dict fails with InvalidConfig, producing no Configuration,
\* exactly when a recognised field is missing-but-required or violates its
\* invariant; keys that are no fields are ignored and never cause a failure.
C3_FromDictValidates ==
    /\ cpc = "raised" => (cerr = "InvalidConfig" /\ ~ValidFields(body))
    /\ cpc = "loaded" => ValidFields(body)

\* C4: from_dict(to_dict(c)) equals c on every field, octave_range keeping
\* its order and to_dict giving it as a 2-element list, also for a config
\* whose octave_range was assigned a list by the override path.
C4_RoundTrip ==
    cpc = "back" =>
        /\ cdict.octave_range.kind = "list"
        /\ Len(cdict.octave_range.elems) = 2
        /\ back.ok
        /\ back.value = config

====
